---- MODULE Spec2Model ----
(***************************************************************************)
(* Model of woltka's multiprocessing classification workflow               *)
(* (src/workflow.py, function classify and its nested classify_file_mp).   *)
(*                                                                         *)
(* Identifiers (subjects, classification units) are sequences of tokens:   *)
(* <<1, 2>> stands for the string "1_2", the delimiter being the one that  *)
(* trimsub names.  Python compares strings lexicographically, and so does  *)
(* LexLess.                                                                *)
(***************************************************************************)
EXTENDS Integers, Sequences, FiniteSets, TLC

\* ------------------------------------------------------------------------
\* Bounds of the model
\* ------------------------------------------------------------------------

\* longest raw subject list drawn for the canonicalizer
MaxSubj == 3

\* number of resolutions applied to one store of assigners
MaxCalls == 4

\* ------------------------------------------------------------------------
\* Values
\* ------------------------------------------------------------------------

None == "None"
Unbound == "Unbound"

\* what a resolution yields: a classification unit, "unassigned", or the
\* failure of a lookup in the hierarchy
Unit(n) == [kind |-> "unit", unit |-> n]
Unassigned == [kind |-> "unassigned", unit |-> <<>>]
LookupError == [kind |-> "error", unit |-> <<>>]

\* the empty dict
EmptyDict == [x \in {} |-> 0]

\* kwargs['strata'] before any stratification is read
NoStrata == [loaded |-> FALSE, sample |-> None]

\* subject identifiers that occur in alignment files
SubjectIds == {<<1>>, <<2>>, <<4>>, <<1, 1>>, <<2, 1>>, <<1, 1, 2>>}

Samples == {"S1", "S2"}

\* hierarchy: species <<1>>, <<2>> in genus <<3>>; species <<4>> in genus
\* <<5>>; root <<6>> (the parent of the root is the root)
Nodes == {<<1>>, <<2>>, <<3>>, <<4>>, <<5>>, <<6>>}
root == <<6>>
tree == [n \in Nodes |->
           CASE n = <<1>> -> <<3>>
             [] n = <<2>> -> <<3>>
             [] n = <<4>> -> <<5>>
             [] OTHER -> root]
rankdic == [n \in Nodes |->
              CASE n \in {<<1>>, <<2>>, <<4>>} -> "species"
                [] n \in {<<3>>, <<5>>} -> "genus"
                [] OTHER -> "root"]

\* ------------------------------------------------------------------------
\* Canonicalizer (workflow.py 164-166)
\* ------------------------------------------------------------------------

\* Python's order of str, on token sequences: the first differing token
\* decides, and a proper prefix is smaller
LexLess(a, b) ==
  \E i \in 1..Len(b) :
     /\ i <= Len(a) + 1
     /\ \A j \in 1..(i - 1) : a[j] = b[j]
     /\ IF i = Len(a) + 1 THEN TRUE ELSE a[i] < b[i]

\* y.rsplit(sep, 1)[0]: cut at the last delimiter, whole string if none
rsplit0(y) == IF Len(y) > 1 THEN SubSeq(y, 1, Len(y) - 1) ELSE y

\* strip_suffix on the subjects of one query
strip_suffix(subjects) == [i \in 1..Len(subjects) |-> rsplit0(subjects[i])]

\* the subjects in the order the mapper yields them
sorted_unsorted(subjects) == subjects

\* sorted(subjects)
sorted(subjects) == SortSeq(subjects, LexLess)

\* tuple(sorted(strip_suffix(x) if trimsub else x)) for one query
canon(subjects, trimsub) ==
  sorted(IF trimsub THEN strip_suffix(subjects) ELSE subjects)

\* line 165 applied to the whole queue of a chunk
canonque(subque, trimsub) ==
  [i \in 1..Len(subque) |-> canon(subque[i], trimsub)]

\* ------------------------------------------------------------------------
\* Resolver and its per-rank cache (assign_readmap and the assigners it
\* builds are called at line 183 and keep their state in the assigners
\* store of lines 141-149)
\* ------------------------------------------------------------------------

Range(s) == {s[i] : i \in 1..Len(s)}

RECURSIVE lineage(_)
\* the path of a node to the root
lineage(n) == IF tree[n] = n THEN <<n>> ELSE <<n>> \o lineage(tree[n])

\* pass-through policy: the subject itself when it is the only one
assign_none(subs) ==
  IF Cardinality(Range(subs)) = 1 THEN Unit(subs[1]) ELSE Unassigned

\* free-rank policy: lowest common ancestor of the subjects
assign_free(subs) ==
  IF \E i \in 1..Len(subs) : subs[i] \notin Nodes THEN LookupError
  ELSE IF Len(subs) = 0 THEN Unassigned
  ELSE LET lin == lineage(subs[1])
           common(k) == \A i \in 1..Len(subs) : lin[k] \in Range(lineage(subs[i]))
           k0 == CHOOSE k \in 1..Len(lin) :
                   common(k) /\ \A j \in 1..(k - 1) : ~common(j)
       IN Unit(lin[k0])

\* fixed-rank policy with uniq: the one unit of that rank all subjects reach
assign_rank(subs, rank) ==
  IF \E i \in 1..Len(subs) : subs[i] \notin Nodes THEN LookupError
  ELSE LET units == {n \in Nodes : rankdic[n] = rank /\
                       \E i \in 1..Len(subs) : n \in Range(lineage(subs[i]))}
       IN IF Cardinality(units) = 1 THEN Unit(CHOOSE n \in units : TRUE)
          ELSE Unassigned

\* the resolution a rank's assigner computes on a miss
compute(rank, subs) ==
  CASE rank = "none" -> assign_none(subs)
    [] rank = "free" -> assign_free(subs)
    [] OTHER -> assign_rank(subs, rank)

\* position of a key in a cache (0 when absent); a cache is a sequence of
\* entries [key, val, by], least recently used first; by is the rank whose
\* resolution computed the entry
hit(c, key) ==
  IF \E i \in 1..Len(c) : c[i].key = key
  THEN CHOOSE i \in 1..Len(c) : c[i].key = key ELSE 0

without(c, i) == SubSeq(c, 1, i - 1) \o SubSeq(c, i + 1, Len(c))

\* a hit that leaves the order of the cache as it is
touch_keep(c, h) == c

\* a hit makes its entry the most recently used
touch(c, h) == Append(without(c, h), c[h])

\* one assigner kept for all ranks
slot_shared(rank) == "all"

\* the key of the assigners store under which a rank keeps its assigner
slot(rank) == rank

\* one call of assigners[rank](subs): the result, the store afterwards and
\* the rank whose computation the result comes from
resolve(assigners, rank, subs, cache) ==
  LET k == slot(rank)
      c == IF k \in DOMAIN assigners THEN assigners[k] ELSE <<>>
      put(c2) == [x \in (DOMAIN assigners) \cup {k} |->
                    IF x = k THEN c2 ELSE assigners[x]]
      h == hit(c, subs)
      v == compute(rank, subs)
  IN IF rank = "none"
     THEN [res |-> v, assigners |-> put(<<>>), by |-> rank]
     ELSE IF h > 0
     THEN [res |-> c[h].val, assigners |-> put(touch(c, h)), by |-> c[h].by]
     ELSE IF v = LookupError
     THEN [res |-> v, assigners |-> put(c), by |-> rank]
     ELSE [res |-> v, by |-> rank,
           assigners |-> put(Append(IF Len(c) >= cache THEN Tail(c) ELSE c,
                                    [key |-> subs, val |-> v, by |-> rank]))]

RECURSIVE assign_queue(_, _, _, _, _)
\* the assigner applied to every query of a sub-batch in turn
assign_queue(subque, i, rank, cache, acc) ==
  IF i > Len(subque) \/ acc.err THEN acc
  ELSE LET r == resolve(acc.assigners, rank, subque[i], cache)
       IN assign_queue(subque, i + 1, rank, cache,
            [assigners |-> r.assigners,
             asgmt |-> Append(acc.asgmt, r.res),
             served |-> Append(acc.served, r.by),
             err |-> r.res = LookupError])

\* stratum of a query in the stratification of a sample
stratum(strata, query) == IF strata.sample = "S1" THEN 7 ELSE 8

\* counter / counter_strat: number of queries per unit, per (stratum, unit)
\* when strata are loaded; unassigned queries are not reported
counter(qryque, asgmt, strata) ==
  LET keyof(i) == IF ~strata.loaded THEN asgmt[i].unit
                  ELSE <<stratum(strata, qryque[i])>> \o asgmt[i].unit
      hits == {i \in 1..Len(asgmt) : asgmt[i].kind = "unit"}
      keys == {keyof(i) : i \in hits}
  IN [u \in keys |-> Cardinality({i \in hits : keyof(i) = u})]

\* sum_dict: per-key sum of two count mappings
sum_dict(a, b) ==
  [u \in (DOMAIN a) \cup (DOMAIN b) |->
     (IF u \in DOMAIN a THEN a[u] ELSE 0) + (IF u \in DOMAIN b THEN b[u] ELSE 0)]

\* assign_readmap(qryque, subque, data, rank, sample, **kwargs): resolve the
\* sub-batch at one rank and add its counts to data[rank][sample]
assign_readmap(qryque, subque, data, rank, sample, kwargs) ==
  LET a == assign_queue(subque, 1, rank, kwargs.cache,
             [assigners |-> kwargs.assigners, asgmt |-> <<>>,
              served |-> <<>>, err |-> FALSE])
      counts == counter(qryque, a.asgmt, kwargs.strata)
      cell == IF sample \in DOMAIN data[rank]
              THEN sum_dict(data[rank][sample], counts) ELSE counts
  IN [err |-> a.err,
      assigners |-> a.assigners,
      asgmt |-> a.asgmt,
      served |-> a.served,
      data |-> IF a.err THEN data
               ELSE [data EXCEPT ![rank] =
                       [s \in (DOMAIN data[rank]) \cup {sample} |->
                          IF s = sample THEN cell ELSE data[rank][s]]]]

\* ------------------------------------------------------------------------
\* Demultiplexer (called at line 169)
\* ------------------------------------------------------------------------

\* a query identifier is <<sample, read>>: the sample is its prefix
sampleof(query) == query[1]

RECURSIVE demux_from(_, _, _, _, _)
\* queries i.. of the batch appended to the sub-batch of their sample; the
\* sub-batches are kept in order of first appearance, as a dict keeps them
demux_from(qryque, subque, samples, i, rmaps) ==
  IF i > Len(qryque) THEN rmaps
  ELSE LET s == sampleof(qryque[i])
           keep == ~samples.given \/ s \in samples.ids
           at == IF \E k \in 1..Len(rmaps) : rmaps[k].sample = s
                 THEN CHOOSE k \in 1..Len(rmaps) : rmaps[k].sample = s ELSE 0
           next == IF ~keep THEN rmaps
                   ELSE IF at = 0
                   THEN Append(rmaps, [sample |-> s,
                                       qryque |-> <<qryque[i]>>,
                                       subque |-> <<subque[i]>>])
                   ELSE [rmaps EXCEPT ![at].qryque = Append(@, qryque[i]),
                                      ![at].subque = Append(@, subque[i])]
       IN demux_from(qryque, subque, samples, i + 1, next)

demultiplex(qryque, subque, samples) ==
  demux_from(qryque, subque, samples, 1, <<>>)

\* ------------------------------------------------------------------------
\* State
\* ------------------------------------------------------------------------

VARIABLES
  \* arguments of classify and the machine it runs on
  cpu,        \* what cpu_count() returns
  files,      \* [isdict, paths, sample]: the list of paths or the dict
              \* path -> sample
  content,    \* per path, what the mapper yields: [readable, chunks]
  samples,    \* [given, ids]: the allow-list
  demux, trimsub, ranks, stratmap, cache,
  \* the orchestrator (body of classify)
  pc,               \* where classify is
  data,             \* data of the calling process
  pool,             \* number of processes of classify_pool (0: no pool yet)
  tasks,            \* the batches of paths pool.map made, in order
  taken,            \* how many of them workers have fetched
  taskres,          \* per batch, what its worker sent back
  classify_results, \* what pool.map returned
  merged,           \* how many results the aggregation loop has consumed
  \* the worker processes
  workers,
  \* history: per path, the workers that began its pipeline
  ran,
  \* the canonicalizer and the resolver applied on their own
  craw, cone, ctwo, cperm, calls, store, fresh

args == <<cpu, files, content, samples, demux, trimsub, ranks, stratmap, cache>>
orch == <<pc, data, pool, tasks, taken, taskres, classify_results, merged>>
pure == <<craw, cone, ctwo, cperm, calls, store, fresh>>
vars == <<args, orch, workers, ran, pure>>

\* the largest pool classify makes (lines 197-198)
MaxPool == 12

\* ------------------------------------------------------------------------
\* Orchestrator (lines 139-152, 195-211)
\* ------------------------------------------------------------------------

\* data = {x: {} for x in ranks}
newdata == [r \in Range(ranks) |-> EmptyDict]

\* the state a process has after unpickling classify_file_mp: the cells
\* data, assigners and kwargs of the closure, by value
closure == [data |-> newdata, assigners |-> EmptyDict, strata |-> NoStrata]

idle == [pc |-> "idle", task |-> 0, fi |-> 0, fp |-> 0, ci |-> 0,
         rmaps |-> <<>>, si |-> 0, ri |-> 0, csample |-> Unbound,
         nqry |-> 0, clo |-> closure, error |-> "none",
         met |-> <<>>, loads |-> <<>>, log |-> <<>>]

\* in a worker, error is the exception that ended its last batch; met,
\* loads and log are history: the samples of the sub-batches it began, the
\* samples whose strata it read and the calls of assign_readmap that
\* returned, since it unpickled its closure

\* a pool of one process per CPU
poolsize_uncapped(n) == n

\* lines 196-200
poolsize(n) == IF n >= MaxPool THEN MaxPool ELSE n

\* sorted(files)
sortedpaths ==
  CHOOSE q \in [1..Cardinality(files.paths) -> files.paths] :
    \A i, j \in DOMAIN q : i < j => q[i] < q[j]

\* the chunksize of Pool.map: len(iterable) / (4 * processes), rounded up
chunksize(n, p) == IF n = 0 THEN 0 ELSE (n + 4 * p - 1) \div (4 * p)

\* the full batches only
batches_short(q, size) ==
  IF size = 0 THEN <<>>
  ELSE [t \in 1..(Len(q) \div size) |->
          SubSeq(q, (t - 1) * size + 1, t * size)]

\* the consecutive batches of size paths each (the last may be shorter)
batches(q, size) ==
  IF size = 0 THEN <<>>
  ELSE [t \in 1..((Len(q) + size - 1) \div size) |->
          SubSeq(q, (t - 1) * size + 1,
                 IF t * size < Len(q) THEN t * size ELSE Len(q))]

\* classify_pool = Pool(...); classify_pool.map(classify_file_mp,
\* sorted(files)) hands the batches to the pool
Dispatch ==
  /\ pc = "start"
  /\ pool' = poolsize(cpu)
  /\ tasks' = batches(sortedpaths,
                      chunksize(Cardinality(files.paths), poolsize(cpu)))
  /\ taskres' = [t \in DOMAIN tasks' |-> [done |-> FALSE, ok |-> FALSE,
                                           value |-> <<>>]]
  /\ workers' = [w \in 1..pool' |-> idle]
  /\ pc' = "map"
  /\ UNCHANGED <<args, data, taken, classify_results, merged, ran, pure>>

RECURSIVE concat(_, _)
concat(res, t) ==
  IF t > Len(res) THEN <<>> ELSE res[t].value \o concat(res, t + 1)

\* some batch came back without an exception
mapok_first == \E t \in DOMAIN taskres : taskres[t].done /\ taskres[t].ok

\* every batch came back, with or without an exception
mapok_any == \A t \in DOMAIN taskres : taskres[t].done

\* pool.map has a value once every batch came back without an exception
mapok == \A t \in DOMAIN taskres : taskres[t].done /\ taskres[t].ok

\* line 201: pool.map returns the results in the order of sorted(files)
MapReturn ==
  /\ pc = "map"
  /\ mapok
  /\ classify_results' = concat(taskres, 1)
  /\ pc' = "close"
  /\ UNCHANGED <<args, data, pool, tasks, taken, taskres, merged, workers,
                 ran, pure>>

\* line 201: pool.map re-raises the exception of a batch; classify ends
\* there, nothing is returned
MapRaise ==
  /\ pc = "map"
  /\ \E t \in DOMAIN taskres : taskres[t].done /\ ~taskres[t].ok
  /\ pc' = "failed"
  /\ UNCHANGED <<args, data, pool, tasks, taken, taskres, classify_results,
                 merged, workers, ran, pure>>

\* lines 202-203: close() and join(); join returns when the processes ended
CloseJoin ==
  /\ pc = "close"
  /\ \A w \in DOMAIN workers : workers[w].pc = "idle"
  /\ pc' = "merge"
  /\ UNCHANGED <<args, data, pool, tasks, taken, taskres, classify_results,
                 merged, workers, ran, pure>>

\* dict.update: the keys of b replace those of a
update(a, b) ==
  [k \in (DOMAIN a) \cup (DOMAIN b) |-> IF k \in DOMAIN b THEN b[k] ELSE a[k]]

\* lines 206-208, one result of classify_results per step
MergeResult ==
  /\ pc = "merge"
  /\ merged < Len(classify_results)
  /\ merged' = merged + 1
  /\ data' = [r \in DOMAIN data |->
                update(data[r], classify_results[merged + 1][r])]
  /\ UNCHANGED <<args, pc, pool, tasks, taken, taskres, classify_results,
                 workers, ran, pure>>

\* lines 210-211: return data
Finish ==
  /\ pc = "merge"
  /\ merged = Len(classify_results)
  /\ pc' = "done"
  /\ UNCHANGED <<args, data, pool, tasks, taken, taskres, classify_results,
                 merged, workers, ran, pure>>

\* ------------------------------------------------------------------------
\* Worker processes running classify_file_mp (lines 155-193)
\* ------------------------------------------------------------------------

\* an exception leaves classify_file_mp: the batch fails as a whole and the
\* process waits for its next batch
raise(w, what) ==
  /\ taskres' = [taskres EXCEPT ![workers[w].task] =
                   [done |-> TRUE, ok |-> FALSE, value |-> <<>>]]
  /\ workers' = [workers EXCEPT ![w].pc = "idle", ![w].error = what]

\* one closure in one memory, as the workers of a pool of threads have it
owners_threads(w) == DOMAIN workers

\* the processes in whose memory the closure written by w lives: the pool
\* is a pool of processes (ProcessingPool), each with its own copy
owners(w) == {w}

\* the workers after w has written its closure
written(ws, w) ==
  [v \in DOMAIN ws |->
     IF v \in owners(w) THEN [ws[v] EXCEPT !.clo = ws[w].clo] ELSE ws[v]]

\* the next chunk is requested whatever is left of this one
aftersample_skip(si, rmaps) == "parse"

\* where the loops of lines 162-183 continue after sub-batch si is through
aftersample(si, rmaps) == IF si < Len(rmaps) THEN "sample" ELSE "parse"

\* the sub-batch is left after its first rank
afterrank_first(ri, si, rmaps) ==
  IF ri < 1 /\ ri < Len(ranks) THEN "rank" ELSE aftersample(si, rmaps)

\* where the loop of lines 182-183 continues after ri ranks of sub-batch si
afterrank(ri, si, rmaps) ==
  IF ri < Len(ranks) THEN "rank" ELSE aftersample(si, rmaps)

\* the allow-list not handed to the demultiplexer
rmapsof_all(fp, qryque, subque) ==
  IF demux THEN demultiplex(qryque, subque, [given |-> FALSE, ids |-> {}])
  ELSE <<[sample |-> files.sample[fp], qryque |-> qryque,
          subque |-> subque]>>

\* lines 169-170: the per-sample maps of a chunk, in the order of the dict
rmapsof(fp, qryque, subque) ==
  IF demux THEN demultiplex(qryque, subque, samples)
  ELSE <<[sample |-> IF Cardinality(files.paths) > 0
                     THEN files.sample[fp] ELSE None,
          qryque |-> qryque, subque |-> subque]>>

\* a process fetches the next batch and unpickles the function with it
GetTask(w) ==
  /\ pc \in {"map", "failed"}
  /\ workers[w].pc = "idle"
  /\ taken < Len(tasks)
  /\ taken' = taken + 1
  /\ workers' = [workers EXCEPT ![w] =
                   [idle EXCEPT !.pc = "call", !.task = taken + 1, !.fi = 1]]
  /\ UNCHANGED <<args, pc, data, pool, tasks, taskres, classify_results,
                 merged, ran, pure>>

\* lines 155-160: the call for the next path of the batch; readzip opens it
EnterFile(w) ==
  LET me == workers[w]
      path == tasks[me.task][me.fi]
  IN /\ me.pc = "call"
     /\ workers' = [workers EXCEPT ![w].pc = "parse", ![w].fp = path,
                                   ![w].ci = 0, ![w].nqry = 0,
                                   ![w].rmaps = <<>>, ![w].si = 0,
                                   ![w].ri = 0, ![w].csample = Unbound]
     /\ ran' = [ran EXCEPT ![path] = Append(@, w)]
     /\ UNCHANGED <<args, orch, pure>>

\* lines 162-170: the mapper yields the next chunk, or the decoder fails, or
\* the file is through and lines 191-193 follow
NextChunk(w) ==
  LET me == workers[w]
      f == content[me.fp]
      ch == f.chunks[me.ci + 1]
      subque == canonque(ch.subque, trimsub)
      rmaps == rmapsof(me.fp, ch.qryque, subque)
  IN /\ me.pc = "parse"
     /\ IF ~f.readable
        THEN raise(w, "format")
        ELSE IF me.ci = Len(f.chunks)
        THEN /\ workers' = [workers EXCEPT ![w].pc = "return"]
             /\ UNCHANGED taskres
        ELSE IF ~demux /\ ~files.isdict /\ Cardinality(files.paths) > 0
        THEN raise(w, "TypeError")
        ELSE /\ workers' = [workers EXCEPT
                  ![w].ci = me.ci + 1,
                  ![w].nqry = me.nqry + Len(ch.qryque),
                  ![w].rmaps = rmaps,
                  ![w].si = 0,
                  ![w].pc = aftersample(0, rmaps)]
             /\ UNCHANGED taskres
     /\ UNCHANGED <<args, pc, data, pool, tasks, taken, classify_results,
                    merged, ran, pure>>

\* read_strata(stratmap[sample], zippers)
read_strata(sample) == [loaded |-> TRUE, sample |-> sample]

\* the sub-batch is resolved with whatever strata there are
stratify_skip(csample, strata, sample) ==
  [error |-> "none", load |-> FALSE, strata |-> strata, csample |-> csample]

\* lines 176-179: the test of csample and the reading of the strata; with
\* a stratmap, csample is read before the function has bound it
stratify(csample, strata, sample) ==
  LET same == [error |-> "none", load |-> FALSE, strata |-> strata,
               csample |-> csample]
  IN IF ~stratmap.given THEN same
     ELSE IF csample = Unbound
     THEN [same EXCEPT !.error = "UnboundLocalError"]
     ELSE IF sample = csample THEN same
     ELSE IF sample \notin DOMAIN stratmap.map
     THEN [same EXCEPT !.error = "KeyError"]
     ELSE IF stratmap.map[sample] # "ok"
     THEN [same EXCEPT !.error = "strata"]
     ELSE [error |-> "none", load |-> TRUE, strata |-> read_strata(sample),
           csample |-> sample]

\* lines 173-179: the next sub-batch and its stratification
NextSample(w) ==
  LET me == workers[w]
      sample == me.rmaps[me.si + 1].sample
      st == stratify(me.csample, me.clo.strata, sample)
      on == [workers EXCEPT ![w].si = me.si + 1, ![w].ri = 0,
                            ![w].met = Append(@, sample),
                            ![w].pc = afterrank(0, me.si + 1, me.rmaps)]
  IN /\ me.pc = "sample"
     /\ IF st.error # "none"
        THEN raise(w, st.error)
        ELSE IF ~st.load
        THEN workers' = on /\ UNCHANGED taskres
        ELSE /\ workers' = written(
                  [on EXCEPT ![w].clo.strata = st.strata,
                             ![w].csample = st.csample,
                             ![w].loads = Append(@, sample)], w)
             /\ UNCHANGED taskres
     /\ UNCHANGED <<args, pc, data, pool, tasks, taken, classify_results,
                    merged, ran, pure>>

\* lines 182-183: assign_readmap for the next rank of the sub-batch
AssignRank(w) ==
  LET me == workers[w]
      rmap == me.rmaps[me.si]
      rank == ranks[me.ri + 1]
      a == assign_readmap(rmap.qryque, rmap.subque, me.clo.data, rank,
                          rmap.sample,
                          [assigners |-> me.clo.assigners, cache |-> cache,
                           strata |-> me.clo.strata])
  IN /\ me.pc = "rank"
     /\ IF a.err
        THEN raise(w, "lookup")
        ELSE /\ workers' = written([workers EXCEPT
                  ![w].ri = me.ri + 1,
                  ![w].clo.data = a.data,
                  ![w].clo.assigners = a.assigners,
                  ![w].log = Append(@, [fp |-> me.fp, ci |-> me.ci,
                                        si |-> me.si, sample |-> rmap.sample,
                                        rank |-> rank,
                                        strata |-> me.clo.strata]),
                  ![w].pc = afterrank(me.ri + 1, me.si, me.rmaps)], w)
             /\ UNCHANGED taskres
     /\ UNCHANGED <<args, pc, data, pool, tasks, taken, classify_results,
                    merged, ran, pure>>

\* lines 191-193: return data.  The results of a batch are pickled when its
\* last call has returned, each being the data of the one closure
Return(w) ==
  LET me == workers[w]
      batch == tasks[me.task]
  IN /\ me.pc = "return"
     /\ IF me.fi < Len(batch)
        THEN /\ workers' = [workers EXCEPT ![w].pc = "call", ![w].fi = me.fi + 1]
             /\ UNCHANGED taskres
        ELSE /\ workers' = [workers EXCEPT ![w].pc = "idle"]
             /\ taskres' = [taskres EXCEPT ![me.task] =
                              [done |-> TRUE, ok |-> TRUE,
                               value |-> [i \in 1..Len(batch) |-> me.clo.data]]]
     /\ UNCHANGED <<args, pc, data, pool, tasks, taken, classify_results,
                    merged, ran, pure>>

\* ------------------------------------------------------------------------
\* The pipeline as a function: what one closure holds after the calls of
\* classify_file_mp for the paths of a batch, one after another
\* ------------------------------------------------------------------------

Failed == [err |-> TRUE, data |-> EmptyDict, assigners |-> EmptyDict,
           strata |-> NoStrata]

RECURSIVE runranks(_, _, _)
runranks(c, rmap, ri) ==
  IF c.err \/ ri > Len(ranks) THEN c
  ELSE LET a == assign_readmap(rmap.qryque, rmap.subque, c.data, ranks[ri],
                               rmap.sample,
                               [assigners |-> c.assigners, cache |-> cache,
                                strata |-> c.strata])
       IN IF a.err THEN Failed
          ELSE runranks([c EXCEPT !.data = a.data, !.assigners = a.assigners],
                        rmap, ri + 1)

RECURSIVE runsamples(_, _, _)
runsamples(c, rmaps, si) ==
  IF c.err \/ si > Len(rmaps) THEN c
  ELSE IF stratmap.given THEN Failed
  ELSE runsamples(runranks(c, rmaps[si], 1), rmaps, si + 1)

RECURSIVE runchunks(_, _, _)
runchunks(c, fp, ci) ==
  LET f == content[fp]
      ch == f.chunks[ci]
      subque == canonque(ch.subque, trimsub)
      rmaps == rmapsof(fp, ch.qryque, subque)
  IN IF c.err \/ ~f.readable THEN Failed
     ELSE IF ci > Len(f.chunks) THEN c
     ELSE IF ~demux /\ ~files.isdict THEN Failed
     ELSE runchunks(runsamples(c, rmaps, 1), fp, ci + 1)

RECURSIVE runbatch(_, _, _)
runbatch(c, batch, fi) ==
  IF c.err \/ fi > Len(batch) THEN c
  ELSE runbatch(runchunks(c, batch[fi], 1), batch, fi + 1)

\* the data a fresh closure returns for a batch of paths
batchdata(batch) ==
  runbatch([err |-> FALSE, data |-> closure.data,
            assigners |-> closure.assigners, strata |-> closure.strata],
           batch, 1)

RECURSIVE aggregate(_, _, _)
\* lines 206-208 over the results of the batches, each result once per path
aggregate(d, bs, t) ==
  IF t > Len(bs) THEN d
  ELSE LET res == batchdata(bs[t]).data
       IN aggregate([r \in DOMAIN d |-> update(d[r], res[r])], bs, t + 1)

\* what classify returns with a pool of p processes
finalfor(p) ==
  aggregate(newdata,
            batches(sortedpaths, chunksize(Cardinality(files.paths), p)), 1)

\* ------------------------------------------------------------------------
\* Inputs
\* ------------------------------------------------------------------------

\* chunks a mapper yields: queries <<sample, read>> and their raw subjects
ChunkA == [qryque |-> << <<"S1", 1>> >>,
           subque |-> << << <<1>> >> >>]
ChunkB == [qryque |-> << <<"S1", 2>>, <<"S2", 1>>, <<"S1", 3>> >>,
           subque |-> << << <<2>>, <<1>> >>, << <<4>> >>, << <<1>> >> >>]
ChunkC == [qryque |-> << <<"S2", 2>> >>,
           subque |-> << << <<2, 1>>, <<1, 1>> >> >>]

FileA == [readable |-> TRUE, chunks |-> <<ChunkA>>]
FileB == [readable |-> TRUE, chunks |-> <<ChunkB>>]
FileAB == [readable |-> TRUE, chunks |-> <<ChunkA, ChunkB>>]
FileC == [readable |-> TRUE, chunks |-> <<ChunkC>>]
FileEmpty == [readable |-> TRUE, chunks |-> <<>>]
FileBad == [readable |-> FALSE, chunks |-> <<>>]

NoStratmap == [given |-> FALSE, map |-> EmptyDict]
Stratmaps == {NoStratmap,
              [given |-> TRUE, map |-> [s \in Samples |-> "ok"]],
              [given |-> TRUE, map |-> [s \in {"S1"} |-> "ok"]]}

NoSamples == [given |-> FALSE, ids |-> {}]

\* the files argument: a list of paths, or a dict path -> sample
aslist(n) == [isdict |-> FALSE, paths |-> 1..n, sample |-> [i \in 1..n |-> None]]
asdict(m) == [isdict |-> TRUE, paths |-> DOMAIN m, sample |-> m]

\* runs of many processes and paths: what the pool does with them
PoolRuns ==
  {[cpu |-> c, files |-> aslist(n), content |-> k, samples |-> NoSamples,
    demux |-> TRUE, trimsub |-> FALSE, ranks |-> <<"free">>,
    stratmap |-> NoStratmap, cache |-> 2] :
     c \in {1, 2}, n \in {5},
     k \in {[i \in 1..5 |-> FileA],
            [i \in 1..5 |-> IF i <= 2 THEN FileB ELSE FileA],
            [i \in 1..5 |-> IF i = 4 THEN FileBad ELSE FileA]}}
  \cup
  {[cpu |-> c, files |-> aslist(2), content |-> k, samples |-> NoSamples,
    demux |-> TRUE, trimsub |-> FALSE, ranks |-> <<"free">>,
    stratmap |-> NoStratmap, cache |-> 2] :
     c \in {3, 12, 13}, k \in {<<FileA, FileB>>, <<FileBad, FileA>>}}

\* runs of one process over one or two paths: what a pipeline does
FileRuns ==
  {[cpu |-> 1, files |-> f, content |-> k, samples |-> a,
    demux |-> d, trimsub |-> t, ranks |-> r, stratmap |-> m, cache |-> h] :
     f \in {aslist(1), aslist(2), asdict(<<"S1">>), asdict(<<"S1", "S2">>),
            asdict(<<"S2", "S2">>)},
     k \in {<<FileA, FileA>>, <<FileAB, FileB>>, <<FileC, FileA>>,
            <<FileB, FileEmpty>>, <<FileEmpty, FileBad>>},
     a \in {NoSamples, [given |-> TRUE, ids |-> {"S1"}]},
     d \in BOOLEAN, t \in BOOLEAN,
     r \in {<<"free">>, <<"genus", "none">>},
     m \in Stratmaps, h \in {1, 2}}

Scenarios == PoolRuns \cup FileRuns

\* ------------------------------------------------------------------------
\* Specification of classify
\* ------------------------------------------------------------------------

nopure ==
  /\ craw = <<>>
  /\ cone = <<>>
  /\ ctwo = <<>>
  /\ cperm = <<>>
  /\ calls = 0
  /\ store = EmptyDict
  /\ fresh = <<>>

Init ==
  /\ \E sc \in Scenarios :
       /\ cpu = sc.cpu
       /\ files = sc.files
       /\ content = [i \in sc.files.paths |-> sc.content[i]]
       /\ samples = sc.samples
       /\ demux = sc.demux
       /\ trimsub = sc.trimsub
       /\ ranks = sc.ranks
       /\ stratmap = sc.stratmap
       /\ cache = sc.cache
  /\ pc = "start"
  /\ data = newdata
  /\ pool = 0
  /\ tasks = <<>>
  /\ taken = 0
  /\ taskres = <<>>
  /\ classify_results = <<>>
  /\ merged = 0
  /\ workers = <<>>
  /\ ran = [i \in files.paths |-> <<>>]
  /\ nopure

Next ==
  \/ Dispatch
  \/ MapReturn
  \/ MapRaise
  \/ CloseJoin
  \/ MergeResult
  \/ Finish
  \/ \E w \in DOMAIN workers : GetTask(w)
  \/ \E w \in DOMAIN workers : EnterFile(w)
  \/ \E w \in DOMAIN workers : NextChunk(w)
  \/ \E w \in DOMAIN workers : NextSample(w)
  \/ \E w \in DOMAIN workers : AssignRank(w)
  \/ \E w \in DOMAIN workers : Return(w)

Spec == Init /\ [][Next]_vars

\* ------------------------------------------------------------------------
\* Properties of classify
\* ------------------------------------------------------------------------

SampleKeys == Samples \cup {None}

\* the count a profile holds at (rank, sample, unit), 0 where it has none
at(d, r, s, u) ==
  IF s \in DOMAIN d[r] THEN (IF u \in DOMAIN d[r][s] THEN d[r][s][u] ELSE 0)
  ELSE 0

\* the units a profile names under a rank
unitsof(d, r) == UNION {DOMAIN d[r][s] : s \in DOMAIN d[r]}

\* the contribution of one file: what its pipeline returns when run alone
contribution(fp) == batchdata(<<fp>>).data

RECURSIVE sumover(_, _, _, _)
\* sum of the contributions of a set of files at (rank, sample, unit)
sumover(fs, r, s, u) ==
  IF fs = {} THEN 0
  ELSE LET fp == CHOOSE x \in fs : TRUE
       IN at(contribution(fp), r, s, u) + sumover(fs \ {fp}, r, s, u)

\* C1: after a successful run the final profile holds, at every (rank,
\* sample, unit), the sum of the contributions of all input files
C1_FinalIsSumOfFiles ==
  pc = "done" =>
    \A r \in Range(ranks) : \A s \in SampleKeys :
      \A u \in unitsof(data, r) \cup Nodes \cup SubjectIds :
        at(data, r, s, u) = sumover(files.paths, r, s, u)

\* C2: the final profile is the same for every pool size (1, 2 or 12)
C2_SameForEveryPoolSize ==
  pc = "done" => \A p \in {1, 2, 12} : data = finalfor(p)

\* the file pipelines in execution
running == {w \in DOMAIN workers : workers[w].pc \notin {"idle"}}

somefailed == \E t \in DOMAIN taskres : taskres[t].done /\ ~taskres[t].ok

\* C3: if the pipeline of a file fails, classify fails as a whole: no
\* result is aggregated and nothing is returned; a run that returns has
\* run every file without failure
C3_FailureAbortsRun ==
  /\ somefailed => (pc \in {"map", "failed"} /\ merged = 0 /\ data = newdata
                    /\ classify_results = <<>>)
  /\ pc = "done" => \A t \in DOMAIN taskres : taskres[t].done /\ taskres[t].ok

C3_Witness ==
  /\ pc = "failed"
  /\ \E t \in DOMAIN taskres : taskres[t].done /\ taskres[t].ok
  /\ \E w \in DOMAIN workers : workers[w].error = "format"

min(a, b) == IF a < b THEN a ELSE b

\* C4: at most min(cpu count, 12) file pipelines execute at a time, and the
\* pool has exactly that many processes from its creation on
C4_PoolBound ==
  /\ Cardinality(running) <= min(cpu, 12)
  /\ pc # "start" => (pool = min(cpu, 12) /\ DOMAIN workers = 1..pool)

C4_Witness ==
  /\ cpu > 12
  /\ pool = 12
  /\ Cardinality(running) = 2

\* C5: every file is processed by one worker, once: never begun twice,
\* owned by the worker that began it, and begun before the pool is through
C5_EachFileOnce ==
  /\ \A fp \in files.paths : Len(ran[fp]) <= 1
  /\ \A w \in running :
       workers[w].fp # 0 => ran[workers[w].fp] = <<w>>
  /\ pc \in {"close", "merge", "done"} =>
       \A fp \in files.paths : Len(ran[fp]) = 1

C5_Witness ==
  /\ pc = "done"
  /\ Cardinality(files.paths) = 5
  /\ \E fp, fq \in files.paths : ran[fp] # ran[fq]

\* C6: a step of a worker changes the closure of no other worker and not
\* the data of the calling process, which changes only in the aggregation
C6_PrivateState ==
  [][/\ \A w \in DOMAIN workers : w \in DOMAIN workers' =>
          (workers'[w].clo # workers[w].clo =>
             /\ \A v \in DOMAIN workers \ {w} : workers'[v].clo = workers[v].clo
             /\ data' = data)
     /\ data' # data => pc = "merge"]_vars

C6_Witness ==
  \E w, v \in DOMAIN workers :
     /\ w # v
     /\ workers[w].pc = "return"
     /\ workers[v].pc = "return"
     /\ workers[w].clo.data # workers[v].clo.data
     /\ workers[w].clo.assigners # workers[v].clo.assigners

RECURSIVE changes(_)
\* a sequence of samples without the repetitions of the sample before
changes(q) ==
  IF Len(q) <= 1 THEN q
  ELSE LET front == changes(SubSeq(q, 1, Len(q) - 1))
       IN IF q[Len(q)] = q[Len(q) - 1] THEN front
          ELSE Append(front, q[Len(q)])

\* C7: with stratification, a worker reads the strata of the first sample
\* it meets and then exactly at every change of sample, and while it
\* resolves a sub-batch the one loaded stratum map is that of its sample
C7_StrataFollowSample ==
  \A w \in DOMAIN workers :
    stratmap.given =>
      /\ workers[w].error # "UnboundLocalError"
      /\ workers[w].loads = changes(workers[w].met)
      /\ workers[w].si >= 1 =>
           /\ workers[w].clo.strata.loaded
           /\ workers[w].clo.strata.sample =
                workers[w].rmaps[workers[w].si].sample

\* ------------------------------------------------------------------------
\* The canonicalizer on its own: one raw subject list, canonicalized once,
\* canonicalized again, and canonicalized after a permutation
\* ------------------------------------------------------------------------

RECURSIVE lists(_)
\* the lists of at most n subject identifiers
lists(n) ==
  IF n = 0 THEN {<<>>}
  ELSE lists(n - 1) \cup
       {Append(l, x) : l \in {m \in lists(n - 1) : Len(m) = n - 1},
                       x \in SubjectIds}

\* classify is not running
off ==
  /\ cpu = 1
  /\ files = aslist(0)
  /\ content = <<>>
  /\ samples = NoSamples
  /\ demux = FALSE
  /\ ranks = <<"free", "genus", "none">>
  /\ stratmap = NoStratmap
  /\ pc = "off"
  /\ data = newdata
  /\ pool = 0
  /\ tasks = <<>>
  /\ taken = 0
  /\ taskres = <<>>
  /\ classify_results = <<>>
  /\ merged = 0
  /\ workers = <<>>
  /\ ran = <<>>

InitCanon ==
  /\ off
  /\ cache = 1
  /\ trimsub \in BOOLEAN
  /\ craw \in lists(MaxSubj)
  /\ cone = <<>>
  /\ ctwo = <<>>
  /\ cperm = <<>>
  /\ calls = 0
  /\ store = EmptyDict
  /\ fresh = <<>>

\* the raw list canonicalized
CanonOnce ==
  /\ cone = <<>>
  /\ cone' = <<canon(craw, trimsub)>>
  /\ UNCHANGED <<args, orch, workers, ran, craw, ctwo, cperm, calls, store,
                 fresh>>

\* the canonical list canonicalized again
CanonTwice ==
  /\ cone # <<>>
  /\ ctwo = <<>>
  /\ ctwo' = <<canon(cone[1], trimsub)>>
  /\ UNCHANGED <<args, orch, workers, ran, craw, cone, cperm, calls, store,
                 fresh>>

\* a permutation of the raw list canonicalized
CanonPerm ==
  /\ cperm = <<>>
  /\ \E f \in Permutations(1..Len(craw)) :
       LET p == [i \in 1..Len(craw) |-> craw[f[i]]]
       IN cperm' = <<p, canon(p, trimsub)>>
  /\ UNCHANGED <<args, orch, workers, ran, craw, cone, ctwo, calls, store,
                 fresh>>

NextCanon == CanonOnce \/ CanonTwice \/ CanonPerm

SpecCanon == InitCanon /\ [][NextCanon]_vars

\* the original statement of C10: canonicalizing twice is canonicalizing
\* once, and permutations canonicalize alike, with or without trimming
C10_Original ==
  /\ ctwo # <<>> => ctwo[1] = cone[1]
  /\ (cperm # <<>> /\ cone # <<>>) => cperm[2] = cone[1]

\* C10: canonicalizing is idempotent when nothing is trimmed or no
\* identifier holds the delimiter more than once, and two permutations of a
\* subject list always canonicalize to the same key
C10_CanonIdempotent ==
  /\ (ctwo # <<>> /\ (~trimsub \/ \A i \in 1..Len(craw) : Len(craw[i]) <= 2))
       => ctwo[1] = cone[1]
  /\ (cperm # <<>> /\ cone # <<>>) => cperm[2] = cone[1]

C10_Witness ==
  /\ trimsub
  /\ ctwo # <<>>
  /\ cperm # <<>>
  /\ Len(craw) = 3
  /\ cperm[1] # craw
  /\ cone[1] # craw
  /\ \E i \in 1..Len(craw) : Len(craw[i]) = 2

\* ------------------------------------------------------------------------
\* The resolver on its own: a sequence of resolutions at several ranks
\* against one store of assigners
\* ------------------------------------------------------------------------

\* canonical subject sets to resolve
Keys == {<< <<1>> >>, << <<1>>, <<2>> >>, << <<4>> >>, << <<1>>, <<4>> >>}

InitCache ==
  /\ off
  /\ cache \in {1, 2}
  /\ trimsub = FALSE
  /\ craw = <<>>
  /\ cone = <<>>
  /\ ctwo = <<>>
  /\ cperm = <<>>
  /\ calls = 0
  /\ store = EmptyDict
  /\ fresh = <<>>

\* the subject sets resolved at each rank so far, each once, in the order
\* of their last resolution
recent == IF fresh = <<>> THEN [r \in Range(ranks) |-> <<>>]
          ELSE fresh[1].recent

\* a sequence of subject sets with subs moved to its end
used(q, subs) ==
  LET other(x) == x # subs
  IN Append(SelectSeq(q, other), subs)

\* one resolution; fresh records it: the result, the result an empty store
\* gives, the rank the served entry was computed at, the caches it changed,
\* whether it was a hit and whether an entry had been evicted before, and
\* the subject sets resolved so far
Resolve ==
  /\ calls < MaxCalls
  /\ \E rank \in Range(ranks), subs \in Keys :
       LET r == resolve(store, rank, subs, cache)
           c == IF slot(rank) \in DOMAIN store THEN store[slot(rank)] ELSE <<>>
       IN /\ store' = r.assigners
          /\ fresh' = <<[rank |-> rank, subs |-> subs, warm |-> r.res,
                         cold |-> resolve(EmptyDict, rank, subs, cache).res,
                         by |-> r.by,
                         changed |-> {k \in DOMAIN store :
                                        r.assigners[k] # store[k]},
                         hit |-> hit(c, subs) > 0,
                         recent |-> [recent EXCEPT ![rank] = used(@, subs)],
                         evicted |-> \/ (fresh # <<>> /\ fresh[1].evicted)
                                     \/ (rank # "none" /\ hit(c, subs) = 0
                                         /\ Len(c) >= cache)]>>
  /\ calls' = calls + 1
  /\ UNCHANGED <<args, orch, workers, ran, craw, cone, ctwo, cperm>>

NextCache == Resolve

SpecCache == InitCache /\ [][NextCache]_vars

\* C8: a resolution with a warm cache, evictions included, returns what a
\* resolution with an empty cache returns
C8_CacheTransparent ==
  fresh # <<>> => fresh[1].warm = fresh[1].cold

C8_Witness ==
  /\ fresh # <<>>
  /\ fresh[1].hit
  /\ fresh[1].evicted
  /\ fresh[1].warm.kind = "unit"

\* C9: a resolution at a rank is served by an entry computed at that rank
\* and changes the cache of no other rank; every cache holds only entries
\* computed at its own rank
C9_RankIsolation ==
  /\ fresh # <<>> =>
       /\ fresh[1].by = fresh[1].rank
       /\ fresh[1].changed \subseteq {fresh[1].rank}
  /\ \A k \in DOMAIN store : \A i \in 1..Len(store[k]) : store[k][i].by = k

C9_Witness ==
  /\ fresh # <<>>
  /\ fresh[1].hit
  /\ \E k \in DOMAIN store :
       /\ k # fresh[1].rank
       /\ \E i \in 1..Len(store[k]) :
            /\ store[k][i].key = fresh[1].subs
            /\ store[k][i].val # fresh[1].warm

\* ------------------------------------------------------------------------
\* Properties of the file pipeline
\* ------------------------------------------------------------------------

\* the workers that hold the per-sample maps of chunk ci of their file
inchunk == {w \in DOMAIN workers : workers[w].fp # 0 /\ workers[w].ci >= 1}

\* the positions <<k, j>> of the pairs of a sequence of sub-batches
pairsof(rmaps) ==
  UNION {{<<k, j>> : j \in 1..Len(rmaps[k].qryque)} : k \in 1..Len(rmaps)}

\* C11: the sub-batches of a demultiplexed chunk hold exactly the pairs
\* whose sample is in the allow-list (all pairs without one), each retained
\* query once, in the sub-batch of its sample, with its subject set
C11_DemuxComplete ==
  \A w \in inchunk :
    demux =>
      LET me == workers[w]
          ch == content[me.fp].chunks[me.ci]
          subque == canonque(ch.subque, trimsub)
          kept == {i \in 1..Len(ch.qryque) :
                     ~samples.given \/ sampleof(ch.qryque[i]) \in samples.ids}
          pos == pairsof(me.rmaps)
      IN /\ Cardinality(pos) = Cardinality(kept)
         /\ \A i \in kept :
              Cardinality({p \in pos :
                 me.rmaps[p[1]].qryque[p[2]] = ch.qryque[i]}) = 1
         /\ \A p \in pos :
              /\ me.rmaps[p[1]].sample = sampleof(me.rmaps[p[1]].qryque[p[2]])
              /\ \E i \in kept :
                   /\ ch.qryque[i] = me.rmaps[p[1]].qryque[p[2]]
                   /\ subque[i] = me.rmaps[p[1]].subque[p[2]]
         /\ \A k, l \in 1..Len(me.rmaps) :
              me.rmaps[k].sample = me.rmaps[l].sample => k = l

C11_Witness ==
  \E w \in inchunk :
    LET me == workers[w]
        ch == content[me.fp].chunks[me.ci]
    IN /\ demux
       /\ samples.given
       /\ \E i \in 1..Len(ch.qryque) : sampleof(ch.qryque[i]) \notin samples.ids
       /\ Len(me.rmaps) = 1
       /\ Len(me.rmaps[1].qryque) = 2

\* the calls of assign_readmap that consume chunk c of a file: every
\* sub-batch in the order of rmaps, every rank in the order of ranks
chunkcalls(fp, c) ==
  LET ch == content[fp].chunks[c]
      rm == rmapsof(fp, ch.qryque, canonque(ch.subque, trimsub))
      n == Len(ranks)
  IN [k \in 1..(Len(rm) * n) |->
        [fp |-> fp, ci |-> c, si |-> ((k - 1) \div n) + 1,
         sample |-> rm[((k - 1) \div n) + 1].sample,
         rank |-> ranks[((k - 1) % n) + 1]]]

RECURSIVE filecalls(_, _)
\* the calls that consume the first c chunks of a file, in the order in
\* which the mapper yields the chunks
filecalls(fp, c) ==
  IF c = 0 THEN <<>> ELSE filecalls(fp, c - 1) \o chunkcalls(fp, c)

\* the calls of assign_readmap a worker has made for a file
logged(w, fp) ==
  LET of(e) == e.fp = fp
      sel == SelectSeq(workers[w].log, of)
  IN [i \in 1..Len(sel) |->
        [fp |-> sel[i].fp, ci |-> sel[i].ci, si |-> sel[i].si,
         sample |-> sel[i].sample, rank |-> sel[i].rank]]

isprefix(a, b) == Len(a) <= Len(b) /\ SubSeq(b, 1, Len(a)) = a

\* the workers that have entered a file
infile == {w \in DOMAIN workers : workers[w].fp # 0}

\* C12: within a file the chunks are processed in the order the mapper
\* yields them, and when the next chunk is requested (or the file is left)
\* every sub-batch of every chunk so far has been resolved at every rank
C12_ChunksInOrder ==
  \A w \in infile :
    LET me == workers[w]
        got == logged(w, me.fp)
    IN /\ isprefix(got, filecalls(me.fp, me.ci))
       /\ me.ci >= 1 => isprefix(filecalls(me.fp, me.ci - 1), got)
       /\ me.pc \in {"parse", "return"} => got = filecalls(me.fp, me.ci)

C12_Witness ==
  \E w \in infile :
    LET me == workers[w]
    IN /\ me.pc = "parse"
       /\ me.ci = 1
       /\ Len(content[me.fp].chunks) = 2
       /\ Len(ranks) = 2
       /\ Len(logged(w, me.fp)) = 2
       /\ logged(w, me.fp) = filecalls(me.fp, 1)

\* the aggregation of lines 206-208 has begun
merging == pc \in {"merge", "done"} \/ merged > 0 \/ data # newdata

\* C13: the aggregation begins only when every batch handed to the pool has
\* come back and no worker is inside a file; while a worker runs, no result
\* has been merged
C13_MergeAfterAll ==
  /\ merging =>
       /\ running = {}
       /\ taken = Len(tasks)
       /\ \A t \in DOMAIN taskres : taskres[t].done
       /\ Len(classify_results) = Cardinality(files.paths)
  /\ running # {} => (merged = 0 /\ data = newdata)

C13_Witness ==
  /\ pc = "merge"
  /\ merged = 1
  /\ Len(tasks) = 2
  /\ \E fp, fq \in files.paths : ran[fp] # ran[fq]

RECURSIVE mergeall(_, _, _)
\* lines 206-208 over a sequence of results, from result i on
mergeall(d, rs, i) ==
  IF i > Len(rs) THEN d
  ELSE mergeall([r \in DOMAIN d |-> update(d[r], rs[i][r])], rs, i + 1)

reversed(q) == [i \in 1..Len(q) |-> q[Len(q) + 1 - i]]

\* C14: merging the results in the reverse order gives the same final
\* profile, and a cell of the profile never holds less than a result that
\* was merged into it holds
C14_MergeOrderFree ==
  /\ pc = "done" => data = mergeall(newdata, reversed(classify_results), 1)
  /\ pc \in {"merge", "done"} =>
       \A i \in 1..merged : \A r \in Range(ranks) : \A s \in SampleKeys :
         \A u \in unitsof(classify_results[i], r) :
           at(data, r, s, u) >= at(classify_results[i], r, s, u)

\* the stratification source of a sample can be read
sourced(sample) ==
  sample \in DOMAIN stratmap.map /\ stratmap.map[sample] = "ok"

\* the samples of the sub-batches of a file
samplesof(fp) ==
  LET q == filecalls(fp, Len(content[fp].chunks))
  IN {q[i].sample : i \in 1..Len(q)}

C16_CanonNoDuplicates ==
  cone # <<>> =>
    \A i, j \in 1..Len(cone[1]) :
      i < j => /\ ~LexLess(cone[1][j], cone[1][i])
               /\ cone[1][i] # cone[1][j]

\* the (rank, sample) cell of a profile, empty where it has none
cell(d, r, s) == IF s \in DOMAIN d[r] THEN d[r][s] ELSE EmptyDict

\* a call of assign_readmap by worker w returns in this step
resolved(w) ==
  /\ w \in DOMAIN workers /\ w \in DOMAIN workers'
  /\ workers[w].pc = "rank"
  /\ workers'[w].log # workers[w].log

\* C17: a sub-batch is left only when it was resolved at every rank; each
\* call of assign_readmap is for the next rank of the rank list and the
\* sample of the sub-batch, and it changes the profile of the worker in the
\* cell of that rank and sample only, where no count decreases
C17_OncePerRank ==
  /\ [](\A w \in DOMAIN workers :
          (workers[w].pc \in {"sample", "parse", "return"}
             /\ workers[w].si >= 1) => workers[w].ri = Len(ranks))
  /\ [][\A w \in DOMAIN workers : resolved(w) =>
          LET me == workers[w]
              e == workers'[w].log[Len(workers'[w].log)]
              old == me.clo.data
              new == workers'[w].clo.data
          IN /\ workers'[w].log = Append(me.log, e)
             /\ workers'[w].ri = me.ri + 1
             /\ e.rank = ranks[me.ri + 1]
             /\ e.sample = me.rmaps[me.si].sample
             /\ e.ci = me.ci /\ e.si = me.si /\ e.fp = me.fp
             /\ \A r \in Range(ranks) : \A s \in SampleKeys :
                  (r # e.rank \/ s # e.sample) =>
                     /\ s \in DOMAIN new[r] <=> s \in DOMAIN old[r]
                     /\ cell(new, r, s) = cell(old, r, s)
             /\ e.sample \in DOMAIN new[e.rank]
             /\ \A u \in DOMAIN cell(old, e.rank, e.sample) :
                  /\ u \in DOMAIN cell(new, e.rank, e.sample)
                  /\ cell(new, e.rank, e.sample)[u] >=
                       cell(old, e.rank, e.sample)[u]]_vars

C17_Witness ==
  \E w \in infile :
    LET me == workers[w]
    IN /\ Len(ranks) = 2
       /\ Len(me.rmaps) = 2
       /\ me.pc = "parse"
       /\ Len(me.log) = 4
       /\ me.log[1].rank # me.log[2].rank
       /\ me.log[1].sample # me.log[3].sample
       /\ me.log[1].ci = me.log[4].ci
       /\ \A r \in Range(ranks) : DOMAIN me.clo.data[r] = Samples

\* the last n elements of a sequence (all of it when it is shorter)
lastof(q, n) == IF Len(q) <= n THEN q ELSE SubSeq(q, Len(q) - n + 1, Len(q))

\* the subject sets a cache holds, least recently used first
keysof(c) == [i \in 1..Len(c) |-> c[i].key]

\* the cache of a rank
cacheof(rank) == IF slot(rank) \in DOMAIN store THEN store[slot(rank)] ELSE <<>>

\* C18: the cache of a rank never holds more than `cache` entries, and it
\* holds exactly the `cache` subject sets most recently resolved at that
\* rank, hits and misses alike, the least recently resolved one first: a
\* miss on a full cache evicts the least recently used entry and a hit
\* makes its entry the most recently used
C18_BoundedLRU ==
  \A rank \in Range(ranks) :
    /\ Len(cacheof(rank)) <= cache
    /\ rank # "none" => keysof(cacheof(rank)) = lastof(recent[rank], cache)

C18_Witness ==
  /\ fresh # <<>>
  /\ cache = 2
  /\ \E rank \in Range(ranks) \ {"none"} :
       /\ Len(recent[rank]) = 3
       /\ Len(cacheof(rank)) = 2
       /\ calls = 4
       /\ fresh[1].rank = rank
       /\ ~fresh[1].hit
       /\ keysof(cacheof(rank))[1] = recent[rank][2]

\* C19: the result returned for a file holds the contributions of that
\* file alone, whatever the worker processed before it
C19_ResultOfOneFile ==
  pc \in {"close", "merge", "done"} =>
    \A i \in 1..Len(classify_results) :
      classify_results[i] = contribution(sortedpaths[i])

\* the sample under which the queries of a file are to be accumulated
\* without demultiplexing
keyfor(fp) == IF files.isdict THEN files.sample[fp] ELSE None

\* C20: without demultiplexing no chunk fails on its sample key; every
\* chunk of a file gives one sub-batch with all its queries and canonical
\* subjects under the sample of the file (None when files is no mapping),
\* and every query of the file is accumulated under that sample only
C20_OneSubBatch ==
  ~demux =>
    \A w \in DOMAIN workers :
      LET me == workers[w]
      IN /\ me.error # "TypeError"
         /\ w \in inchunk =>
              LET ch == content[me.fp].chunks[me.ci]
              IN me.rmaps = <<[sample |-> keyfor(me.fp),
                               qryque |-> ch.qryque,
                               subque |-> canonque(ch.subque, trimsub)]>>
         /\ \A i \in 1..Len(me.log) : me.log[i].sample = keyfor(me.log[i].fp)
         /\ (me.pc = "return" /\ content[me.fp].chunks # <<>>) =>
              logged(w, me.fp) # <<>>

====
